---- MODULE Spec2Model ----
(***************************************************************************)
(* GalaxyScene (src/src/scenes/examples/CubeScene.ts), its base class      *)
(* BaseScene (src/src/scenes/BaseScene.ts) and the page entry point        *)
(* (src/unnamed/part_000) as a state machine.                              *)
(*                                                                         *)
(* Real numbers are exact rationals <<numerator, denominator>> in lowest   *)
(* terms (floating-point rounding is not modelled).  Angles that only      *)
(* occur under cos/sin are kept in turns (multiples of 2*pi).  A point's    *)
(* coordinates and colour channels are kept as the expressions that        *)
(* compute them, its size as the number.  Math.random() is a stream of     *)
(* values k/RandRes; the streams considered are the RandRes rotations of   *)
(* 0/RandRes, 1/RandRes, ...                                               *)
(***************************************************************************)
EXTENDS Integers, Sequences, FiniteSets, TLC

\* ------------------------------------------------------------- bounds
\* Stand-in for params.galaxy.particleCount (100000 in the source).
ParticleCount == 3
\* Math.random() returns one of 0/RandRes .. (RandRes-1)/RandRes.
RandRes == 3
\* At most this many frames are ticked (this.time grows without bound).
MaxFrames == 2
\* At most this many point clouds are ever generated (ids grow without bound).
MaxGenerations == 2
\* Stand-in for analyser.frequencyBinCount (fftSize / 2 = 128 in the source).
FrequencyBinCount == 3

\* ---------------------------------------------------------- rationals
Abs(n) == IF n < 0 THEN -n ELSE n

RECURSIVE GCD(_, _)
GCD(a, b) == IF b = 0 THEN a ELSE GCD(b, a % b)

\* The rational n/d (d > 0) in lowest terms.
Q(n, d) == LET g == GCD(Abs(n), d) IN <<n \div g, d \div g>>

QAdd(a, b) == Q(a[1] * b[2] + b[1] * a[2], a[2] * b[2])
QSub(a, b) == Q(a[1] * b[2] - b[1] * a[2], a[2] * b[2])
QMul(a, b) == Q(a[1] * b[1], a[2] * b[2])
\* a / b for b > 0.
QDiv(a, b) == Q(a[1] * b[2], a[2] * b[1])
QLe(a, b) == a[1] * b[2] <= b[1] * a[2]
QMax(a, b) == IF QLe(a, b) THEN b ELSE a

Zero == Q(0, 1)
One == Q(1, 1)
Half == Q(1, 2)

Range(s) == {s[k] : k \in 1..Len(s)}
Count(s, e) == Cardinality({k \in 1..Len(s) : s[k] = e})

RECURSIVE Sum(_)
Sum(s) == IF s = <<>> THEN 0 ELSE Head(s) + Sum(Tail(s))

\* An object reference that was never assigned.
Undefined == [undefined |-> TRUE]

\* --------------------------------------------------------- parameters
\* new THREE.Color(0xRRGGBB): the channels as fractions of 255.
Color(r, g, b) == [r |-> Q(r, 255), g |-> Q(g, 255), b |-> Q(b, 255)]

\* GalaxyScene.params as constructed.
DefaultParams ==
    [galaxy |-> [armCount |-> 5,
                 armWidth |-> Q(3, 10),
                 spiralFactor |-> Q(15, 10),
                 particleCount |-> ParticleCount,
                 size |-> Q(1000, 1),
                 randomness |-> Q(2, 10),
                 colorShift |-> Q(5, 10),
                 coreSize |-> Q(100, 1),
                 coreIntensity |-> Q(2, 1),
                 dustDensity |-> Q(5, 10)],
     colors |-> [core |-> Color(255, 170, 85),
                 arms |-> Color(0, 102, 255),
                 dust |-> Color(255, 85, 0)],
     animation |-> [rotationSpeed |-> Q(1, 10),
                    pulseIntensity |-> Q(3, 10),
                    audioReactivity |-> Q(1, 1)]]

\* The values the panel's sliders are moved to (each within the slider's range).
ArmCounts == {2, 5, 8}
ArmWidths == {Q(3, 10), Q(1, 1)}
SpiralFactors == {Q(15, 10), Q(3, 1)}
Randomnesses == {Q(2, 10), One}
DustDensities == {Q(5, 10), One}
RotationSpeeds == {Q(1, 10), Q(5, 10)}
PulseIntensities == {Q(3, 10), One}

\* The fields createGalaxy reads to build the geometry.
Structural(p) ==
    [armCount |-> p.galaxy.armCount,
     armWidth |-> p.galaxy.armWidth,
     spiralFactor |-> p.galaxy.spiralFactor,
     particleCount |-> p.galaxy.particleCount,
     size |-> p.galaxy.size,
     randomness |-> p.galaxy.randomness,
     colorShift |-> p.galaxy.colorShift,
     core |-> p.colors.core,
     arms |-> p.colors.arms]

\* ---------------------------------------------------------- generator
\* The k-th value (k = 0, 1, ...) Math.random() returns in a generation whose
\* random stream is `seed`.
Random(seed, k) == Q((seed + k) % RandRes, RandRes)

\* Mutant of ArmOf: the index is divided where it should be reduced.
ArmOfByBlock(i, armCount) == (i \div armCount) % armCount

\* i % armCount: the arm bucket of point i.
ArmOf(i, armCount) == i % armCount

\* armAngle of point i, in turns: (i % armCount) * (2*pi / armCount).
ArmAngle(i, armCount) == Q(ArmOf(i, armCount), armCount)

\* Mutant of PointSize: the floor of 2 is forgotten.
PointSizeUnclamped(distanceFromCenter) ==
    QMul(QSub(One, distanceFromCenter), Q(4, 1))

\* sizes[i] = Math.max(2, (1 - distanceFromCenter) * 4).
PointSize(distanceFromCenter) ==
    QMax(Q(2, 1), QMul(QSub(One, distanceFromCenter), Q(4, 1)))

\* new THREE.Color().lerpColors(c1, c2, alpha): each channel is
\* c1 + (c2 - c1) * alpha, kept as that expression's three operands.
LerpColors(c1, c2, alpha) ==
    [r |-> [from |-> c1.r, to |-> c2.r, alpha |-> alpha],
     g |-> [from |-> c1.g, to |-> c2.g, alpha |-> alpha],
     b |-> [from |-> c1.b, to |-> c2.b, alpha |-> alpha]]

\* One iteration of createGalaxy's loop: what it stores for point i.  The four
\* Math.random() calls are taken in the order the loop makes them.  A position
\* component is kept as the expression that computes it: trig(armAngle +
\* spiralAngle) * (radius + armOffset) + randomOffset, where radius, armOffset,
\* randomOffset and the thickness are given by their Math.random() values (the
\* parameters that scale them are those of generatedFrom, see CreateGalaxy).
Point(p, seed, i) ==
    LET g == p.galaxy
        armAngle == ArmAngle(i, g.armCount)
        radiusDraw == Random(seed, 4 * i)
        armOffsetDraw == Random(seed, 4 * i + 1)
        randomOffsetDraw == Random(seed, 4 * i + 2)
        thicknessDraw == Random(seed, 4 * i + 3)
        \* radius / size, with radius = Math.random() * size
        distanceFromCenter == radiusDraw
        baseColor == LerpColors(p.colors.core, p.colors.arms,
                                QMul(distanceFromCenter, g.colorShift))
    IN  [position |-> << [trig |-> "cos", armAngle |-> armAngle, radius |-> radiusDraw,
                          armOffset |-> armOffsetDraw, randomOffset |-> randomOffsetDraw],
                         [trig |-> "none", armAngle |-> Zero, radius |-> radiusDraw,
                          armOffset |-> thicknessDraw, randomOffset |-> Zero],
                         [trig |-> "sin", armAngle |-> armAngle, radius |-> radiusDraw,
                          armOffset |-> armOffsetDraw, randomOffset |-> randomOffsetDraw] >>,
         color |-> <<baseColor.r, baseColor.g, baseColor.b>>,
         size |-> PointSize(distanceFromCenter)]

\* The length of the positions and colors arrays: particleCount * 3.
ComponentCount(particleCount) == particleCount * 3

\* What the loop has stored for points 0 .. n-1, in index order.
RECURSIVE Points(_, _, _)
Points(p, seed, n) ==
    IF n = 0 THEN <<>> ELSE Append(Points(p, seed, n - 1), Point(p, seed, n - 1))

\* The writes to components i3, i3 + 1, i3 + 2 of every point, in index order.
RECURSIVE Positions(_)
Positions(pts) == IF pts = <<>> THEN <<>> ELSE Head(pts).position \o Positions(Tail(pts))

RECURSIVE Colors(_)
Colors(pts) == IF pts = <<>> THEN <<>> ELSE Head(pts).color \o Colors(Tail(pts))

RECURSIVE Sizes(_)
Sizes(pts) == IF pts = <<>> THEN <<>> ELSE <<Head(pts).size>> \o Sizes(Tail(pts))

\* new Float32Array(len) after the writes `written` to its first components:
\* a typed array starts as zeros and drops writes past its end.
TypedArray(len, written, zero) ==
    SubSeq(written \o [k \in 1..len |-> zero], 1, len)

\* The three typed arrays createGalaxy allocates and fills (1-based here:
\* component k of the source is element k + 1).
Geometry(p, seed) ==
    LET n == p.galaxy.particleCount
        pts == Points(p, seed, n)
        zeroPosition == [trig |-> "none", armAngle |-> Zero, radius |-> Zero,
                         armOffset |-> Zero, randomOffset |-> Zero]
        zeroColor == [from |-> Zero, to |-> Zero, alpha |-> Zero]
    IN  [positions |-> TypedArray(ComponentCount(n), Positions(pts), zeroPosition),
         colors |-> TypedArray(ComponentCount(n), Colors(pts), zeroColor),
         sizes |-> TypedArray(n, Sizes(pts), Zero)]

\* The uniforms if createGalaxy took the animation values from the defaults.
ParticleUniformsFromDefaults(p) ==
    [time |-> Zero,
     audioIntensity |-> Zero,
     rotationSpeed |-> DefaultParams.animation.rotationSpeed,
     pulseIntensity |-> DefaultParams.animation.pulseIntensity,
     dustDensity |-> DefaultParams.galaxy.dustDensity]

\* createGalaxy without the scene.remove of the previous cloud.
CreateGalaxyWithoutRemove(s, seed) ==
    LET new == [id |-> s.created + 1,
                geometry |-> Geometry(s.params, seed),
                uniforms |-> [time |-> Zero,
                              audioIntensity |-> Zero,
                              rotationSpeed |-> s.params.animation.rotationSpeed,
                              pulseIntensity |-> s.params.animation.pulseIntensity,
                              dustDensity |-> s.params.galaxy.dustDensity],
                generatedFrom |-> Structural(s.params)]
    IN  [s EXCEPT !.particles = new,
                  !.created = s.created + 1,
                  !.scene = s.scene \cup {new.id}]

\* The uniforms of the ShaderMaterial createGalaxy builds.
ParticleUniforms(p) ==
    [time |-> Zero,
     audioIntensity |-> Zero,
     rotationSpeed |-> p.animation.rotationSpeed,
     pulseIntensity |-> p.animation.pulseIntensity,
     dustDensity |-> p.galaxy.dustDensity]

\* createGalaxy on scene state s: a new THREE.Points (object identity `id`)
\* replaces this.particles in the scene.  generatedFrom records the parameter
\* values the geometry was computed from.
CreateGalaxy(s, seed) ==
    LET new == [id |-> s.created + 1,
                geometry |-> Geometry(s.params, seed),
                uniforms |-> ParticleUniforms(s.params),
                generatedFrom |-> Structural(s.params)]
    IN  [s EXCEPT !.particles = new,
                  !.created = s.created + 1,
                  !.scene = (IF s.particles # Undefined
                                THEN s.scene \ {s.particles.id}
                                ELSE s.scene) \cup {new.id}]

\* createGalaxyCore: the core mesh and its two uniforms.  The intensity the
\* frame loop stores later needs sin, so it is kept as the values it is
\* computed from.
CreateGalaxyCore(s) ==
    [s EXCEPT !.core = [uniforms |->
                           [time |-> Zero,
                            intensity |-> [coreIntensity |-> s.params.galaxy.coreIntensity,
                                           sinOf |-> Zero,
                                           pulseIntensity |-> Zero]]],
              !.coreInScene = TRUE]

\* ------------------------------------------------------------ sampler
\* Mutant of AudioLoudness: the sum is divided by the number of bins only.
AudioLoudnessPerBin(bins) == Q(Sum(bins), Len(bins))

\* Array.from(dataArray).reduce((a, b) => a + b, 0) / (dataArray.length * 255),
\* for a non-empty dataArray.
AudioLoudness(bins) == Q(Sum(bins), Len(bins) * 255)

\* -------------------------------------------------------------- state
VARIABLES
    hasApp,           \* the page has an element with id 'app'
    audioSupported,   \* new AudioContext() and createAnalyser() succeed here
    page,             \* "loading", then "running" (start returned) or "failed"
    canvasAttached,   \* renderer.domElement was appended to the 'app' element
    params,           \* GalaxyScene.params
    particles,        \* GalaxyScene.particles
    core,             \* GalaxyScene.core
    scene,            \* ids of the THREE.Points objects among scene.children
    coreInScene,      \* the core mesh is among scene.children
    created,          \* number of THREE.Points objects constructed so far
    composer,         \* the EffectComposer exists
    gui,              \* the panel exists
    audioContext,     \* "undefined" or "created"
    analyser,         \* "undefined" or "created"
    dataArray,        \* the Uint8Array of frequency bins (<<>> while undefined)
    isAudioConnected, \* GalaxyScene.isAudioConnected
    time,             \* GalaxyScene.time
    rafQueue,         \* callbacks requestAnimationFrame has queued and not yet run
    controlsUpdates,  \* calls of controls.update() so far
    renders,          \* calls of composer.render() so far
    analyserReads,    \* calls of analyser.getByteFrequencyData() so far
    trace,            \* the calls made by the handler that ran last, in order
    console,          \* console.warn / console.error messages so far
    sampled           \* the sampler's result in SpecSampler ("none" elsewhere)

env == <<hasApp, audioSupported>>
sceneVars == <<page, canvasAttached, params, particles, core, scene, coreInScene,
               created, composer, gui, audioContext, analyser, dataArray,
               isAudioConnected, time, rafQueue, controlsUpdates, renders,
               analyserReads, trace, console>>
vars == <<hasApp, audioSupported, page, canvasAttached, params, particles, core,
          scene, coreInScene, created, composer, gui, audioContext, analyser,
          dataArray, isAudioConnected, time, rafQueue, controlsUpdates, renders,
          analyserReads, trace, console, sampled>>

\* The scene's fields as one record, so that a handler's statements compose.
Cur ==
    [page |-> page, canvasAttached |-> canvasAttached, params |-> params,
     particles |-> particles, core |-> core, scene |-> scene,
     coreInScene |-> coreInScene, created |-> created, composer |-> composer,
     gui |-> gui, audioContext |-> audioContext, analyser |-> analyser,
     dataArray |-> dataArray, isAudioConnected |-> isAudioConnected,
     time |-> time, rafQueue |-> rafQueue, controlsUpdates |-> controlsUpdates,
     renders |-> renders, analyserReads |-> analyserReads, trace |-> trace,
     console |-> console]

\* The handler ends with the scene's fields as in s.
SetFields(s) ==
    /\ page' = s.page
    /\ canvasAttached' = s.canvasAttached
    /\ params' = s.params
    /\ particles' = s.particles
    /\ core' = s.core
    /\ scene' = s.scene
    /\ coreInScene' = s.coreInScene
    /\ created' = s.created
    /\ composer' = s.composer
    /\ gui' = s.gui
    /\ audioContext' = s.audioContext
    /\ analyser' = s.analyser
    /\ dataArray' = s.dataArray
    /\ isAudioConnected' = s.isAudioConnected
    /\ time' = s.time
    /\ rafQueue' = s.rafQueue
    /\ controlsUpdates' = s.controlsUpdates
    /\ renders' = s.renders
    /\ analyserReads' = s.analyserReads
    /\ trace' = s.trace
    /\ console' = s.console

\* The scene's fields are as in s (an initial condition).
Starts(s) ==
    /\ page = s.page
    /\ canvasAttached = s.canvasAttached
    /\ params = s.params
    /\ particles = s.particles
    /\ core = s.core
    /\ scene = s.scene
    /\ coreInScene = s.coreInScene
    /\ created = s.created
    /\ composer = s.composer
    /\ gui = s.gui
    /\ audioContext = s.audioContext
    /\ analyser = s.analyser
    /\ dataArray = s.dataArray
    /\ isAudioConnected = s.isAudioConnected
    /\ time = s.time
    /\ rafQueue = s.rafQueue
    /\ controlsUpdates = s.controlsUpdates
    /\ renders = s.renders
    /\ analyserReads = s.analyserReads
    /\ trace = s.trace
    /\ console = s.console

\* The handler ends in the state `result` (evaluated once).
Set(result) == \E s \in {result} : SetFields(s)

\* The fields of a GalaxyScene before its constructor has run.
Unbuilt ==
    [page |-> "loading", canvasAttached |-> FALSE, params |-> DefaultParams,
     particles |-> Undefined, core |-> Undefined, scene |-> {},
     coreInScene |-> FALSE, created |-> 0, composer |-> FALSE, gui |-> FALSE,
     audioContext |-> "undefined", analyser |-> "undefined", dataArray |-> <<>>,
     isAudioConnected |-> FALSE, time |-> Zero, rafQueue |-> 0,
     controlsUpdates |-> 0, renders |-> 0, analyserReads |-> 0, trace |-> <<>>,
     console |-> <<>>]

\* The byte sequences getByteFrequencyData is taken to write.
ByteSamples == {0, 1, 128, 255}
BinSeqs(n) == [1..n -> ByteSamples]

\* ------------------------------------------------------------ methods
\* BaseScene's and GalaxyScene's constructors.  The canvas is appended with
\* document.getElementById('app')?.appendChild(...): nothing is appended, and
\* nothing is thrown, when the element is absent.
Construct(s, appPresent) ==
    [s EXCEPT !.canvasAttached = appPresent,
              !.trace = Append(@, "constructor")]

\* Mutant of AudioSetup: the statements are not wrapped in try/catch.
AudioSetupUncaught(s, supported) ==
    IF supported
        THEN [s |-> [s EXCEPT !.audioContext = "created",
                              !.analyser = "created",
                              !.dataArray = [k \in 1..FrequencyBinCount |-> 0],
                              !.trace = Append(@, "audioSetup")],
              threw |-> FALSE]
        ELSE [s |-> [s EXCEPT !.trace = Append(@, "audioSetup")],
              threw |-> TRUE]

\* The try/catch at the end of init: the analyser and its buffer, or a
\* console.warn.  threw: an exception leaves init.
AudioSetup(s, supported) ==
    IF supported
        THEN [s |-> [s EXCEPT !.audioContext = "created",
                              !.analyser = "created",
                              !.dataArray = [k \in 1..FrequencyBinCount |-> 0],
                              !.trace = Append(@, "audioSetup")],
              threw |-> FALSE]
        ELSE [s |-> [s EXCEPT !.console = Append(@, "warn: Audio context not supported"),
                              !.trace = Append(@, "audioSetup")],
              threw |-> FALSE]

\* setupPostProcessing.
SetupPostProcessing(s) ==
    [s EXCEPT !.composer = TRUE, !.trace = Append(@, "setupPostProcessing")]

\* setupGUI.
SetupGUI(s) ==
    [s EXCEPT !.gui = TRUE, !.trace = Append(@, "setupGUI")]

\* GalaxyScene.init.
SceneInit(s, seed, supported) ==
    LET s1 == SetupPostProcessing(s)
        s2 == [CreateGalaxy(s1, seed) EXCEPT !.trace = Append(@, "createGalaxy")]
        s3 == [CreateGalaxyCore(s2) EXCEPT !.trace = Append(@, "createGalaxyCore")]
        s4 == SetupGUI(s3)
    IN  AudioSetup(s4, supported)

\* this.time += 0.016.
TimeStep == Q(16, 1000)

\* Mutant of AudioActive: only the analyser's existence is tested.
AudioActiveWithoutConnectionCheck(s) == s.analyser # "undefined"

\* The condition under which animate reads the analyser.
AudioActive(s) == s.isAudioConnected /\ s.analyser # "undefined"

\* Mutant of FrameEffects: the frame is rendered before the controls are updated.
FrameEffectsRenderFirst(s) ==
    <<"requestAnimationFrame">>
    \o (IF s.particles # Undefined THEN <<"particles.uniforms">> ELSE <<>>)
    \o (IF s.core # Undefined THEN <<"core.uniforms">> ELSE <<>>)
    \o <<"composer.render", "controls.update">>

\* The calls one run of animate makes, in order.
FrameEffects(s) ==
    <<"requestAnimationFrame">>
    \o (IF s.particles # Undefined THEN <<"particles.uniforms">> ELSE <<>>)
    \o (IF s.core # Undefined THEN <<"core.uniforms">> ELSE <<>>)
    \o <<"controls.update", "composer.render">>

\* The value animate stores in the particles' time uniform.
TimeUniform(t, rotationSpeed) == QMul(t, rotationSpeed)

\* GalaxyScene.animate; bins is what getByteFrequencyData writes if it is called.
Animate(s, bins) ==
    LET t == QAdd(s.time, TimeStep)
        active == AudioActive(s)
        fx == FrameEffects(s)
    IN  [s EXCEPT
            !.rafQueue = @ + Count(fx, "requestAnimationFrame"),
            !.time = t,
            !.particles =
                IF s.particles = Undefined THEN @
                ELSE [@ EXCEPT
                        !.uniforms.time = TimeUniform(t, s.params.animation.rotationSpeed),
                        !.uniforms.audioIntensity =
                            IF active
                                THEN QMul(AudioLoudness(bins),
                                          s.params.animation.audioReactivity)
                                ELSE @],
            !.dataArray = IF s.particles # Undefined /\ active THEN bins ELSE @,
            !.analyserReads = IF s.particles # Undefined /\ active THEN @ + 1 ELSE @,
            !.core =
                IF s.core = Undefined THEN @
                ELSE [@ EXCEPT
                        !.uniforms.time = t,
                        !.uniforms.intensity =
                            [coreIntensity |-> s.params.galaxy.coreIntensity,
                             sinOf |-> QMul(t, Q(2, 1)),
                             pulseIntensity |-> s.params.animation.pulseIntensity]],
            !.controlsUpdates = @ + Count(fx, "controls.update"),
            !.renders = @ + Count(fx, "composer.render"),
            !.trace = @ \o fx]

\* BaseScene.start: init, then the first animate.
Start(s, seed, supported, bins) ==
    LET r == SceneInit(s, seed, supported)
    IN  IF r.threw THEN r ELSE [s |-> Animate(r.s, bins), threw |-> FALSE]

\* The angle the vertex shader rotates every point by: time * rotationSpeed,
\* of the uniforms.
ShaderAngle(uniforms) == QMul(uniforms.time, uniforms.rotationSpeed)

\* ------------------------------------------------------------ actions
\* The page before DOMContentLoaded, in each environment.
Init ==
    /\ hasApp \in BOOLEAN
    /\ audioSupported \in BOOLEAN
    /\ Starts(Unbuilt)
    /\ sampled = <<>>

\* The DOMContentLoaded handler: new GalaxyScene(), scene.start(), and the
\* catch around both.
Load ==
    /\ page = "loading"
    /\ \E seed \in 0..(RandRes - 1) :
         LET c == Construct([Cur EXCEPT !.trace = <<>>], hasApp)
             i == SceneInit(c, seed, audioSupported)
         IN  \E bins \in (IF AudioActive(i.s) THEN BinSeqs(Len(i.s.dataArray)) ELSE {<<>>}) :
               LET r == Start(c, seed, audioSupported, bins)
               IN  Set(IF r.threw
                          THEN [r.s EXCEPT !.page = "failed",
                                           !.console = Append(@, "error: Failed to initialize scene")]
                          ELSE [r.s EXCEPT !.page = "running"])
    /\ UNCHANGED <<env, sampled>>

\* A callback queued by requestAnimationFrame runs: animate.
AnimationFrame ==
    /\ rafQueue > 0
    /\ QLe(QAdd(time, TimeStep), QMul(Q(MaxFrames, 1), TimeStep))
    /\ \E bins \in (IF AudioActive(Cur) THEN BinSeqs(Len(dataArray)) ELSE {<<>>}) :
         Set(Animate([Cur EXCEPT !.rafQueue = @ - 1, !.trace = <<>>], bins))
    /\ UNCHANGED <<env, sampled>>

\* The onChange of a 'Galaxy Structure' slider that regenerates: the panel has
\* stored the new value in params.galaxy, and the callback calls createGalaxy.
Regenerate(p) ==
    /\ created < MaxGenerations
    /\ \E seed \in 0..(RandRes - 1) :
         Set([CreateGalaxy([Cur EXCEPT !.params = p], seed)
                 EXCEPT !.trace = <<"createGalaxy">>])
    /\ UNCHANGED <<env, sampled>>

\* 'Spiral Arms' is moved to v.
SetArmCount(v) ==
    /\ gui
    /\ v # params.galaxy.armCount
    /\ Regenerate([params EXCEPT !.galaxy.armCount = v])

\* Mutant of SetArmWidth: the slider has no onChange that regenerates.
SetArmWidthWithoutRegeneration(v) ==
    /\ gui
    /\ v # params.galaxy.armWidth
    /\ Set([Cur EXCEPT !.params.galaxy.armWidth = v, !.trace = <<>>])
    /\ UNCHANGED <<env, sampled>>

\* 'Arm Width' is moved to v.
SetArmWidth(v) ==
    /\ gui
    /\ v # params.galaxy.armWidth
    /\ Regenerate([params EXCEPT !.galaxy.armWidth = v])

\* 'Spiral Tightness' is moved to v.
SetSpiralFactor(v) ==
    /\ gui
    /\ v # params.galaxy.spiralFactor
    /\ Regenerate([params EXCEPT !.galaxy.spiralFactor = v])

\* 'Star Spread' is moved to v.
SetRandomness(v) ==
    /\ gui
    /\ v # params.galaxy.randomness
    /\ Regenerate([params EXCEPT !.galaxy.randomness = v])

\* 'Dust Density' is moved to v: the callback copies it into the uniform.
SetDustDensity(v) ==
    /\ gui
    /\ v # params.galaxy.dustDensity
    /\ Set([Cur EXCEPT !.params.galaxy.dustDensity = v,
                       !.particles = IF particles = Undefined THEN @
                                     ELSE [@ EXCEPT !.uniforms.dustDensity = v],
                       !.trace = <<"uniforms.dustDensity">>])
    /\ UNCHANGED <<env, sampled>>

\* Mutant of SetRotationSpeed: the slider is wired to createGalaxy like the
\* structural ones.
SetRotationSpeedRegenerating(v) ==
    /\ gui
    /\ v # params.animation.rotationSpeed
    /\ Regenerate([params EXCEPT !.animation.rotationSpeed = v])

\* 'Rotation Speed' is moved to v: the callback copies it into the uniform.
SetRotationSpeed(v) ==
    /\ gui
    /\ v # params.animation.rotationSpeed
    /\ Set([Cur EXCEPT !.params.animation.rotationSpeed = v,
                       !.particles = IF particles = Undefined THEN @
                                     ELSE [@ EXCEPT !.uniforms.rotationSpeed = v],
                       !.trace = <<"uniforms.rotationSpeed">>])
    /\ UNCHANGED <<env, sampled>>

\* 'Pulse Strength' is moved to v: the callback copies it into the uniform.
SetPulseIntensity(v) ==
    /\ gui
    /\ v # params.animation.pulseIntensity
    /\ Set([Cur EXCEPT !.params.animation.pulseIntensity = v,
                       !.particles = IF particles = Undefined THEN @
                                     ELSE [@ EXCEPT !.uniforms.pulseIntensity = v],
                       !.trace = <<"uniforms.pulseIntensity">>])
    /\ UNCHANGED <<env, sampled>>

ChangeArmCount == \E v \in ArmCounts : SetArmCount(v)
ChangeArmWidth == \E v \in ArmWidths : SetArmWidth(v)
ChangeSpiralFactor == \E v \in SpiralFactors : SetSpiralFactor(v)
ChangeRandomness == \E v \in Randomnesses : SetRandomness(v)
ChangeDustDensity == \E v \in DustDensities : SetDustDensity(v)
ChangeRotationSpeed == \E v \in RotationSpeeds : SetRotationSpeed(v)
ChangePulseIntensity == \E v \in PulseIntensities : SetPulseIntensity(v)

Next ==
    \/ Load
    \/ AnimationFrame
    \/ ChangeArmCount
    \/ ChangeArmWidth
    \/ ChangeSpiralFactor
    \/ ChangeRandomness
    \/ ChangeDustDensity
    \/ ChangeRotationSpeed
    \/ ChangePulseIntensity

Spec == Init /\ [][Next]_vars

\* ------------------------------------------- the sampler on its own
\* Any non-empty buffer of up to FrequencyBinCount bytes, not yet sampled.
InitSampler ==
    /\ hasApp = TRUE
    /\ audioSupported = TRUE
    /\ \E n \in 1..FrequencyBinCount : \E bins \in BinSeqs(n) :
         Starts([Unbuilt EXCEPT !.dataArray = bins])
    /\ sampled = <<>>

\* The sampler's expression is evaluated on the buffer.
Sample ==
    /\ sampled = <<>>
    /\ sampled' = AudioLoudness(dataArray)
    /\ UNCHANGED <<env, sceneVars>>

NextSampler == Sample

SpecSampler == InitSampler /\ [][NextSampler]_vars

\* ----------------------------------------- the generator on its own
\* The slider range of 'Spiral Arms'.
ArmCountRange == 2..8

\* A scene whose params hold any armCount of the slider's range and any
\* particleCount up to 3 * ParticleCount, before anything was generated.
InitGenerator ==
    /\ hasApp = TRUE
    /\ audioSupported = TRUE
    /\ \E a \in ArmCountRange : \E n \in 1..(3 * ParticleCount) :
         Starts([Unbuilt EXCEPT !.params.galaxy.armCount = a,
                                !.params.galaxy.particleCount = n])
    /\ sampled = <<>>

\* createGalaxy is called on the scene's params.
Generate == Regenerate(params)

NextGenerator == Generate

SpecGenerator == InitGenerator /\ [][NextGenerator]_vars

\* ------------------------------------------------------------- claims
\* The handler that ran last rendered a frame.
Rendered == "composer.render" \in Range(trace)

\* The stored point cloud: the identity of the particles object and its arrays.
CloudOf ==
    IF particles = Undefined THEN Undefined
    ELSE [id |-> particles.id,
          positions |-> particles.geometry.positions,
          colors |-> particles.geometry.colors,
          sizes |-> particles.geometry.sizes]

\* C1: after any sequence of generations the stored positions and colors hold
\* 3 * particleCount components and sizes holds particleCount, for the
\* particleCount the last generation read, and every stored size is >= 2.
C1_ArraysDescribeParticleCountPoints ==
    particles # Undefined =>
        LET n == particles.generatedFrom.particleCount
            geo == particles.geometry
        IN  /\ Len(geo.positions) = 3 * n
            /\ Len(geo.colors) = 3 * n
            /\ Len(geo.sizes) = n
            /\ \A i \in 1..Len(geo.sizes) : QLe(Q(2, 1), geo.sizes[i])

\* C1 witness: a regenerated cloud in which one size sits on the floor of 2 and
\* another lies above it.
C1_Witness ==
    /\ particles # Undefined
    /\ created >= 2
    /\ \E i, j \in 1..Len(particles.geometry.sizes) :
         /\ particles.geometry.sizes[i] = Q(2, 1)
         /\ particles.geometry.sizes[j] # Q(2, 1)

\* C2: the cloud in place was always generated from the current values of the
\* structural parameters: a change of one regenerates within the same handler,
\* so no frame renders a cloud generated from other values.
C2_CloudGeneratedFromCurrentParams ==
    particles # Undefined => particles.generatedFrom = Structural(params)

\* C2 witness: a frame rendered after a structural parameter was changed.
C2_Witness ==
    /\ Rendered
    /\ renders >= 2
    /\ Structural(params) # Structural(DefaultParams)
    /\ particles.generatedFrom = Structural(params)

\* C3: a frame tick and a change of rotationSpeed, pulseIntensity or
\* dustDensity leave the particles object and its positions, colors and sizes
\* as they were; a step that changes them has called createGalaxy.
C3_OnlyCreateGalaxyChangesCloud ==
    [][ /\ (AnimationFrame \/ ChangeRotationSpeed \/ ChangePulseIntensity
                \/ ChangeDustDensity) => CloudOf' = CloudOf
        /\ CloudOf' # CloudOf => "createGalaxy" \in Range(trace') ]_vars

\* C3 witness: frames were ticked and all three animation parameters changed,
\* and the first cloud is still in place.
C3_Witness ==
    /\ Rendered
    /\ renders >= 2
    /\ params.animation.rotationSpeed # DefaultParams.animation.rotationSpeed
    /\ params.animation.pulseIntensity # DefaultParams.animation.pulseIntensity
    /\ params.galaxy.dustDensity # DefaultParams.galaxy.dustDensity
    /\ particles.id = 1

\* C4: in every rendered frame the angle the shader rotates the points by
\* equals elapsedTime * rotationSpeed.
C4_AngleIsElapsedTimeTimesRotationSpeed ==
    (Rendered /\ particles # Undefined) =>
        ShaderAngle(particles.uniforms) = QMul(time, params.animation.rotationSpeed)

\* C5: while no audio source is connected the audioIntensity uniform of the
\* cloud in place is 0, after any interleaving of frames, parameter changes and
\* regenerations.
C5_NoAudioSourceIntensityZero ==
    (~isAudioConnected /\ particles # Undefined) =>
        particles.uniforms.audioIntensity = Zero

\* C5 witness: the analyser exists, no source is connected, the cloud was
\* regenerated and frames were rendered after that.
C5_Witness ==
    /\ Rendered
    /\ renders >= 2
    /\ created >= 2
    /\ analyser = "created"
    /\ ~isAudioConnected
    /\ particles.uniforms.audioIntensity = Zero

\* C6: when the audio context cannot be acquired, init catches the failure:
\* once the load handler has run the scene is running with galaxy, core and
\* panel created and the frame loop under way, nothing was reported as a failed
\* initialisation, the analyser is never read and audioIntensity is 0.
C6_AudioFailureIsCaught ==
    (~audioSupported /\ page # "loading") =>
        /\ page = "running"
        /\ particles # Undefined
        /\ core # Undefined
        /\ gui
        /\ renders >= 1
        /\ rafQueue = 1
        /\ "error: Failed to initialize scene" \notin Range(console)
        /\ "warn: Audio context not supported" \in Range(console)
        /\ analyser = "undefined"
        /\ analyserReads = 0
        /\ particles.uniforms.audioIntensity = Zero

\* C6 witness: the audio context failed and a later frame was rendered.
C6_Witness ==
    /\ ~audioSupported
    /\ Rendered
    /\ renders >= 2
    /\ analyserReads = 0

\* C7: when the host container is absent, construction fails: the scene is not
\* started and no frame is rendered.
C7_MissingContainerIsFatal ==
    ~hasApp => (page # "running" /\ renders = 0)

\* C8: for a non-empty buffer of bytes the sampler's loudness lies in [0, 1];
\* it is 0 when every bin is 0 and 1 when every bin is 255.
C8_LoudnessInUnitInterval ==
    (sampled # <<>> /\ dataArray # <<>>) =>
        /\ QLe(Zero, sampled)
        /\ QLe(sampled, One)
        /\ (\A k \in 1..Len(dataArray) : dataArray[k] = 0) => sampled = Zero
        /\ (\A k \in 1..Len(dataArray) : dataArray[k] = 255) => sampled = One

\* C8 witness: a buffer of several bins, all 255, was sampled.
C8_Witness ==
    /\ sampled # <<>>
    /\ Len(dataArray) >= 2
    /\ \A k \in 1..Len(dataArray) : dataArray[k] = 255

\* The armAngle stored for point i (0-based) of the cloud in place.
StoredArmAngle(i) == particles.geometry.positions[3 * i + 1].armAngle

\* The number of points of the cloud in place whose armAngle is that of bucket b.
BucketCount(b) ==
    LET a == particles.generatedFrom.armCount
        n == particles.generatedFrom.particleCount
    IN  Cardinality({i \in 0..(n - 1) : StoredArmAngle(i) = Q(b, a)})

\* C9: for every armCount >= 2 and particleCount > 0, point i is given the base
\* angle (i mod armCount) * 2*pi / armCount, and the numbers of points of any
\* two arm buckets differ by at most 1 (each is particleCount / armCount rounded
\* down or up).
C9_ArmBucketsBalanced ==
    particles # Undefined =>
        LET a == particles.generatedFrom.armCount
            n == particles.generatedFrom.particleCount
        IN  /\ \A i \in 0..(n - 1) : StoredArmAngle(i) = Q(i % a, a)
            /\ \A b \in 0..(a - 1) :
                 BucketCount(b) \in {n \div a, (n + a - 1) \div a}
            /\ \A b, c \in 0..(a - 1) : BucketCount(b) - BucketCount(c) \in {-1, 0, 1}

\* C9 witness: a generated cloud whose particleCount is no multiple of armCount
\* and exceeds it, so that buckets of both sizes occur.
C9_Witness ==
    /\ particles # Undefined
    /\ particles.generatedFrom.particleCount > particles.generatedFrom.armCount
    /\ particles.generatedFrom.particleCount % particles.generatedFrom.armCount # 0
    /\ \E b, c \in 0..(particles.generatedFrom.armCount - 1) :
         BucketCount(b) = BucketCount(c) + 1

\* The place of call e in the last handler's trace (0 if it is not there).
IndexOf(e) ==
    IF e \in Range(trace) THEN CHOOSE k \in 1..Len(trace) : trace[k] = e ELSE 0

\* C10: a handler that ticks a frame updates the controls once and renders
\* once, the controls before the render and both after the uniform updates, and
\* queues one next tick; the first tick comes after init's last step; one tick is
\* always pending while the scene runs.
C10_FrameTickOrder ==
    /\ Rendered =>
        /\ Count(trace, "requestAnimationFrame") = 1
        /\ Count(trace, "controls.update") = 1
        /\ Count(trace, "composer.render") = 1
        /\ Count(trace, "particles.uniforms") = 1
        /\ Count(trace, "core.uniforms") = 1
        /\ IndexOf("particles.uniforms") < IndexOf("controls.update")
        /\ IndexOf("core.uniforms") < IndexOf("controls.update")
        /\ IndexOf("controls.update") < IndexOf("composer.render")
        /\ "constructor" \in Range(trace) =>
             /\ "audioSetup" \in Range(trace)
             /\ \A e \in {"setupPostProcessing", "createGalaxy", "createGalaxyCore",
                          "setupGUI", "audioSetup"} :
                    0 < IndexOf(e) /\ IndexOf(e) < IndexOf("requestAnimationFrame")
    /\ controlsUpdates = renders
    /\ time = QMul(Q(renders, 1), TimeStep)
    /\ renders >= 1 => (composer /\ gui /\ particles # Undefined /\ core # Undefined)
    /\ page = "running" => rafQueue = 1
    /\ page = "loading" => (rafQueue = 0 /\ renders = 0)

\* C10 witness: a tick run from the animation-frame queue, after the first one.
C10_Witness ==
    /\ Rendered
    /\ "constructor" \notin Range(trace)
    /\ renders >= 2
    /\ rafQueue = 1

\* C11: once a cloud has been generated, the scene holds exactly one particle
\* cloud and it is the object of the most recent createGalaxy call (the one
\* this.particles refers to); a running page always has one.
C11_SceneHoldsOnlyLatestCloud ==
    /\ particles # Undefined => (scene = {particles.id} /\ particles.id = created)
    /\ particles = Undefined => scene = {}
    /\ page = "running" => particles # Undefined

\* C11 witness: a regeneration has replaced the cloud init created.
C11_Witness ==
    /\ page = "running"
    /\ created >= 2
    /\ trace = <<"createGalaxy">>
    /\ scene = {created}

\* C12: at every render the particle uniforms rotationSpeed, pulseIntensity
\* and dustDensity equal the live parameters and the time uniform equals the
\* elapsed time times the live rotationSpeed, whatever panel changes and
\* regenerations came before.
C12_RenderReadsLiveParams ==
    (Rendered /\ particles # Undefined) =>
        /\ particles.uniforms.rotationSpeed = params.animation.rotationSpeed
        /\ particles.uniforms.pulseIntensity = params.animation.pulseIntensity
        /\ particles.uniforms.dustDensity = params.galaxy.dustDensity
        /\ particles.uniforms.time = QMul(time, params.animation.rotationSpeed)

\* C12 witness: a render after a regeneration, with an animation parameter
\* moved off its default.
C12_Witness ==
    /\ Rendered
    /\ renders >= 2
    /\ created >= 2
    /\ params.animation.rotationSpeed # DefaultParams.animation.rotationSpeed
    /\ particles.uniforms.rotationSpeed = params.animation.rotationSpeed

====
